---- MODULE Spec2Model ----
(***************************************************************************)
(* userutil.py: a command-line utility that logs into a Mattermost site    *)
(* and performs account-management actions for one user.  The model       *)
(* follows main() statement by statement: the two-pass argument parsing,   *)
(* validate_args, reading the token, building the Driver, login, and the   *)
(* nine `if args.<flag>:` blocks, each calling one action function.        *)
(* Python's None is the value None; a dict is a record whose absent keys   *)
(* hold None; an uncaught exception stops the run in pc = "crashed".       *)
(* DEBUG stays False: the debug_print lines are left out.                  *)
(***************************************************************************)
EXTENDS Integers, Sequences, FiniteSets

VARIABLES
    cmdline,    \* the command line: site flags, --config, -e, --team, action flags in order
    files,      \* the config files on disk: name -> its [Site] section, if it has one
    args,       \* the argparse Namespace main works with
    pc,         \* main's position
    exitCode,   \* the process exit code, -1 while running
    cur,        \* index (1..9) of the `if args.<flag>:` block main is at, 10 past the last
    userToken,  \* the token main read from the token file
    driver,     \* the options the Driver was constructed with
    api,        \* every call made on the Driver, in order
    out,        \* every line printed (print_info / print_warn / print_error), in order
    invoked,    \* how many times main called the action function of each block
    last        \* the most recent action-function call: its inputs and its outcome

vars == <<cmdline, files, args, pc, exitCode, cur, userToken, driver, api, out, invoked, last>>

----------------------------------------------------------------------------
(* Bounds *)

\* most action flags given on one command line
MaxFlags == 2

\* most characters in a channel name given on the command line
MaxNameLen == 3

----------------------------------------------------------------------------
(* Values *)

None == "None"

DEFAULT_CONFIG_FILE == "config.ini"
DEFAULT_PORT == "443"
DEFAULT_SCHEME == "https"

OTHER_CONFIG_FILE == "other.ini"

SiteKeys == {"siteurl", "port", "scheme", "tokenfile"}

\* the nine `if args.<flag>:` blocks of main, in source order
Flags == <<"forcelogout", "disableuser", "enableuser", "newnickname", "removenickname",
           "teamadd", "teamremove", "channeladd", "channelremove">>

NFlags == Len(Flags)

BoolFlags == {"forcelogout", "disableuser", "enableuser", "removenickname"}

StrFlags == {"newnickname", "teamadd", "teamremove", "channeladd", "channelremove"}

\* what each string-valued flag carries on the command line
NICK == "Nick"
TEAM_ADD == "teamA"
TEAM_REMOVE == "teamB"
CHANNEL_ADD == "the --channeladd name"
CHANNEL_REMOVE == "the --channelremove name"
USER_EMAIL == "u@example.com"
TEAM == "Main Team"

\* the characters of two channel names, Town Hall and Off-Topic
TownHall == <<"T", "o", "w", "n", " ", "H", "a", "l", "l">>
OffTopic == <<"O", "f", "f", "-", "T", "o", "p", "i", "c">>

\* the characters of args.channeladd / args.channelremove, which are those typed
\* after --channeladd / --channelremove (a string is not indexable here, so args
\* keeps the name as a whole and the command line its characters)
Chars(s) ==
    CASE s = CHANNEL_ADD -> cmdline.channeladd
      [] s = CHANNEL_REMOVE -> cmdline.channelremove

\* token files that exist on disk, and the first line of each
ExistingFiles == {"ini.tok", "other.tok", "cli.tok"}

FirstLine(path) ==
    CASE path = "ini.tok" -> "token-ini"
      [] path = "other.tok" -> "token-other"
      [] path = "cli.tok" -> "token-cli"

\* int(args.port): the port strings int() accepts, and their values
NumericPorts == {"443", "8065", "8066", "8067"}

IntOf(port) ==
    CASE port = "443" -> 443
      [] port = "8065" -> 8065
      [] port = "8066" -> 8066
      [] port = "8067" -> 8067

----------------------------------------------------------------------------
(* Configuration and argument parsing *)

\* dict.get(key, default)
Get(d, key, default) == IF d[key] = None THEN default ELSE d[key]

\* load_site_config raises KeyError when the file has no [Site] section
\* (configparser.read skips a file that does not exist)
LoadRaises(config_file) == ~files[config_file].hasSite

\* the named file's keys laid over those of config.ini
load_site_config_over_default(config_file) ==
    [k \in SiteKeys |-> IF files[config_file][k] # None THEN files[config_file][k]
                        ELSE files[DEFAULT_CONFIG_FILE][k]]

load_site_config(config_file) == [k \in SiteKeys |-> files[config_file][k]]

\* the value argparse leaves in the Namespace for a site option: the command-line
\* value when the flag is given, the parser's default otherwise
SiteOption(cl, key, default) == IF cl[key] # None THEN cl[key] ELSE default

\* is_valid_file: parser.error when the path does not exist, else the open file
is_valid_file(path) == IF path \in ExistingFiles THEN path ELSE None

\* parse_args ends in parser.error (exit code 2): -e is required, --scheme has
\* choices (checked for command-line values only), and the tokenfile type is
\* applied to the command-line value or, when the flag is absent, to a string default
ParserError(defaults, cl) ==
    \/ cl.useremail = None
    \/ cl.scheme \notin {None, "http", "https"}
    \/ LET path == SiteOption(cl, "tokenfile", defaults["tokenfile"])
       IN  path # None /\ is_valid_file(path) = None

FlagGiven(cl, f) == \E i \in 1..Len(cl.argv) : cl.argv[i] = f

\* setup_parser(defaults).parse_args(): the Namespace
parse_args(defaults, cl) ==
    [ config         |-> IF cl.config = None THEN DEFAULT_CONFIG_FILE ELSE cl.config,
      siteurl        |-> SiteOption(cl, "siteurl", defaults["siteurl"]),
      port           |-> SiteOption(cl, "port", Get(defaults, "port", DEFAULT_PORT)),
      scheme         |-> SiteOption(cl, "scheme", Get(defaults, "scheme", DEFAULT_SCHEME)),
      tokenfile      |-> SiteOption(cl, "tokenfile", defaults["tokenfile"]),
      useremail      |-> cl.useremail,
      team           |-> cl.team,
      forcelogout    |-> FlagGiven(cl, "forcelogout"),
      disableuser    |-> FlagGiven(cl, "disableuser"),
      enableuser     |-> FlagGiven(cl, "enableuser"),
      removenickname |-> FlagGiven(cl, "removenickname"),
      newnickname    |-> IF FlagGiven(cl, "newnickname") THEN NICK ELSE None,
      teamadd        |-> IF FlagGiven(cl, "teamadd") THEN TEAM_ADD ELSE None,
      teamremove     |-> IF FlagGiven(cl, "teamremove") THEN TEAM_REMOVE ELSE None,
      channeladd     |-> IF FlagGiven(cl, "channeladd") THEN CHANNEL_ADD ELSE None,
      channelremove  |-> IF FlagGiven(cl, "channelremove") THEN CHANNEL_REMOVE ELSE None ]

\* the Namespace before parsing
NoArgs ==
    [ config |-> None, siteurl |-> None, port |-> None, scheme |-> None,
      tokenfile |-> None, useremail |-> None, team |-> None,
      forcelogout |-> FALSE, disableuser |-> FALSE, enableuser |-> FALSE,
      removenickname |-> FALSE, newnickname |-> None, teamadd |-> None,
      teamremove |-> None, channeladd |-> None, channelremove |-> None ]

\* Python truth of a string-or-None value
Truthy(v) == v # None /\ v # ""

\* Python truth of args.<flag>
Selected(a, f) == IF f \in BoolFlags THEN a[f] ELSE Truthy(a[f])

\* validate_args with the team rule tested before the email rule
validate_args_team_first(a) ==
    IF ~Truthy(a.siteurl) \/ ~Truthy(a.port) \/ ~Truthy(a.scheme) \/ ~Truthy(a.tokenfile)
    THEN 1
    ELSE IF (Truthy(a.channeladd) \/ Truthy(a.channelremove)) /\ ~Truthy(a.team)
    THEN 3
    ELSE IF /\ \E f \in BoolFlags \cup StrFlags : Selected(a, f)
            /\ ~Truthy(a.useremail)
    THEN 2
    ELSE 0

\* validate_args: the code it exits with, 0 when it returns
validate_args(a) ==
    IF ~Truthy(a.siteurl) \/ ~Truthy(a.port) \/ ~Truthy(a.scheme) \/ ~Truthy(a.tokenfile)
    THEN 1
    ELSE IF /\ \/ a.forcelogout
               \/ a.disableuser
               \/ Truthy(a.newnickname)
               \/ a.enableuser
               \/ Truthy(a.newnickname)
               \/ a.removenickname
               \/ Truthy(a.teamadd)
               \/ Truthy(a.teamremove)
               \/ Truthy(a.channeladd)
               \/ Truthy(a.channelremove)
            /\ ~Truthy(a.useremail)
    THEN 2
    ELSE IF (Truthy(a.channeladd) \/ Truthy(a.channelremove)) /\ ~Truthy(a.team)
    THEN 3
    ELSE 0

----------------------------------------------------------------------------
(* The action functions.  Each is a function of its arguments and of what    *)
(* the Driver answers: `user`, `team`, `channel` are the lookup results (None *)
(* or the entity's id) and `response` is the mutating call's answer, a dict   *)
(* with the keys status, status_code, team_id, nickname (None: key absent).   *)
(* The result is the function's trace of Driver calls and printed lines, and  *)
(* how it ends: "True", "False", or "KeyError" when it subscripts a missing   *)
(* key.                                                                       *)

Call(name, kind, a1, a2) ==
    [ev |-> "call", api |-> name, kind |-> kind, a1 |-> a1, a2 |-> a2,
     level |-> None, msg |-> None]

Line(level, msg) ==
    [ev |-> "print", api |-> None, kind |-> None, a1 |-> None, a2 |-> None,
     level |-> level, msg |-> msg]

print_info(msg) == Line("INFO", msg)
print_warn(msg) == Line("WARNING", msg)
print_error(msg) == Line("ERROR", msg)

Outcome(events, ret) == [events |-> events, ret |-> ret]

\* force_user_logout revoking the sessions a second time when the first answer is not OK
force_user_logout_retrying(email, user, response) ==
    LET e1 == <<print_info("Logging out user"),
                Call("users.get_user_by_email", "lookup", email, None)>>
        e2 == e1 \o <<Call("users.revoke_all_user_sessions", "mutate", user, None)>>
        e3 == e2 \o <<Call("users.revoke_all_user_sessions", "mutate", user, None)>>
    IN  IF ~Truthy(user)
        THEN Outcome(e1 \o <<print_warn("User not found!")>>, "False")
        ELSE IF response.status = None
        THEN Outcome(e2, "KeyError")
        ELSE IF ~(response.status = "OK")
        THEN Outcome(e3 \o <<print_warn("Failed to logout user")>>, "False")
        ELSE Outcome(e2 \o <<print_info("User logged out!")>>, "True")

force_user_logout(email, user, response) ==
    LET e1 == <<print_info("Logging out user"),
                Call("users.get_user_by_email", "lookup", email, None)>>
        e2 == e1 \o <<Call("users.revoke_all_user_sessions", "mutate", user, None)>>
    IN  IF ~Truthy(user)
        THEN Outcome(e1 \o <<print_warn("User not found!")>>, "False")
        ELSE IF response.status = None
        THEN Outcome(e2, "KeyError")
        ELSE IF ~(response.status = "OK")
        THEN Outcome(e2 \o <<print_warn("Failed to logout user")>>, "False")
        ELSE Outcome(e2 \o <<print_info("User logged out!")>>, "True")

\* payload['active'] of disable_user
ActivePayload(revert) == IF revert THEN "True" ELSE "False"

disable_user(email, revert, user, response) ==
    LET e1 == <<print_info(IF revert THEN "Re-enabling user" ELSE "Disabling user"),
                Call("users.get_user_by_email", "lookup", email, None)>>
        e2 == e1 \o <<Call("users.update_user_active_status", "mutate", user,
                           ActivePayload(revert))>>
    IN  IF ~Truthy(user)
        THEN Outcome(e1 \o <<print_warn("User not found!")>>, "False")
        ELSE IF response.status = None
        THEN Outcome(e2, "KeyError")
        ELSE IF ~(response.status = "OK")
        THEN Outcome(e2 \o <<print_warn("Failed to update user")>>, "False")
        ELSE Outcome(e2 \o <<print_info("User updated successfully!")>>, "True")

new_nickname(email, newnickname, user, response) ==
    LET e1 == <<print_info("Setting new nickname for user"),
                Call("users.get_user_by_email", "lookup", email, None)>>
        e2 == e1 \o <<Call("users.patch_user", "mutate", user, newnickname)>>
    IN  IF ~Truthy(user)
        THEN Outcome(e1 \o <<print_warn("User not found!")>>, "False")
        ELSE IF response.nickname = None
        THEN Outcome(e2, "KeyError")
        ELSE IF ~(response.nickname = newnickname)
        THEN Outcome(e2 \o <<print_warn("Failed to set nickname for user")>>, "False")
        ELSE Outcome(e2 \o <<print_info("User nickname updated")>>, "True")

remove_nickname(email, user, response) ==
    LET e1 == <<print_info("Clearing nickname for user"),
                Call("users.get_user_by_email", "lookup", email, None)>>
        e2 == e1 \o <<Call("users.patch_user", "mutate", user, "")>>
    IN  IF ~Truthy(user)
        THEN Outcome(e1 \o <<print_warn("User not found!")>>, "False")
        ELSE IF response.nickname = None
        THEN Outcome(e2, "KeyError")
        ELSE IF ~(response.nickname = "")
        THEN Outcome(e2 \o <<print_warn("Failed to clear nickname for user")>>, "False")
        ELSE Outcome(e2 \o <<print_info("User nickname cleared!")>>, "True")

\* add_user_to_team without the `if not team` test
add_user_to_team_unchecked(email, teamname, user, team, response) ==
    LET e1 == <<print_info("Adding user to team"),
                Call("users.get_user_by_email", "lookup", email, None)>>
        e3 == e1 \o <<Call("teams.get_team_by_name", "lookup", teamname, None),
                      Call("teams.add_user_to_team", "mutate", team, user)>>
    IN  IF ~Truthy(user)
        THEN Outcome(e1 \o <<print_warn("User not found!")>>, "False")
        ELSE IF ~Truthy(response.team_id)
        THEN Outcome(e3 \o <<print_warn("Failed to add user to team!")>>, "False")
        ELSE Outcome(e3 \o <<print_info("User added to team")>>, "True")

add_user_to_team(email, teamname, user, team, response) ==
    LET e1 == <<print_info("Adding user to team"),
                Call("users.get_user_by_email", "lookup", email, None)>>
        e2 == e1 \o <<Call("teams.get_team_by_name", "lookup", teamname, None)>>
        e3 == e2 \o <<Call("teams.add_user_to_team", "mutate", team, user)>>
    IN  IF ~Truthy(user)
        THEN Outcome(e1 \o <<print_warn("User not found!")>>, "False")
        ELSE IF ~Truthy(team)
        THEN Outcome(e2 \o <<print_warn("Unable to get ID of team")>>, "False")
        ELSE IF response.team_id = None
        THEN Outcome(e3, "KeyError")
        ELSE IF ~Truthy(response.team_id)
        THEN Outcome(e3 \o <<print_warn("Failed to add user to team!")>>, "False")
        ELSE Outcome(e3 \o <<print_info("User added to team")>>, "True")

remove_user_from_team(email, teamname, user, team, response) ==
    LET e1 == <<print_info("Removing user from team"),
                Call("users.get_user_by_email", "lookup", email, None)>>
        e2 == e1 \o <<Call("teams.get_team_by_name", "lookup", teamname, None)>>
        e3 == e2 \o <<Call("teams.remove_user_from_team", "mutate", team, user)>>
    IN  IF ~Truthy(user)
        THEN Outcome(e1 \o <<print_warn("User not found!")>>, "False")
        ELSE IF ~Truthy(team)
        THEN Outcome(e2 \o <<print_warn("Unable to get ID of team")>>, "False")
        ELSE IF response.status = None
        THEN Outcome(e3, "KeyError")
        ELSE IF ~Truthy(response.status)
        THEN Outcome(e3 \o <<print_warn("Failed to remove user from team!")>>, "False")
        ELSE Outcome(e3 \o <<print_info("User removed from team")>>, "True")

\* str.lower() on one character: the characters of its lower-case form.  A code
\* point outside ASCII is written U+xxxx.  U+0130 (capital I with dot above)
\* lower-cases to two code points, i and U+0307 (combining dot above); U+2102
\* (double-struck capital C) is an upper-case letter without a lower-case form
Lower(c) ==
    CASE c = "A" -> <<"a">>
      [] c = "T" -> <<"t">>
      [] c = "H" -> <<"h">>
      [] c = "O" -> <<"o">>
      [] c = "U+0130" -> <<"i", "U+0307">>
      [] OTHER -> <<c>>

\* str.isupper() on one character
IsUpper(c) == c \in {"A", "T", "H", "O", "U+0130", "U+2102"}

\* channelname.lower()
RECURSIVE str_lower(_)
str_lower(s) == IF s = <<>> THEN <<>> ELSE Lower(Head(s)) \o str_lower(Tail(s))

\* s.replace(' ', '-')
str_replace_spaces(s) == [i \in 1..Len(s) |-> IF s[i] = " " THEN "-" ELSE s[i]]

\* parse_channel_name without its replace(' ', '-')
parse_channel_name_lower_only(channelname) == str_lower(channelname)

parse_channel_name(channelname) ==
    LET lowercase_channelname == str_lower(channelname)
        converted_channelname == str_replace_spaces(lowercase_channelname)
    IN  converted_channelname

add_user_to_channel(email, channelname, teamname, user, channel, response) ==
    LET e1 == <<print_info("Adding user to channel"),
                Call("users.get_user_by_email", "lookup", email, None)>>
        e2 == e1 \o <<Call("channels.get_channel_by_name_and_team_name", "lookup",
                           teamname, parse_channel_name(Chars(channelname)))>>
        e3 == e2 \o <<Call("channels.add_user", "mutate", channel, user)>>
    IN  IF ~Truthy(user)
        THEN Outcome(e1 \o <<print_warn("User not found!")>>, "False")
        ELSE IF ~Truthy(channel)
        THEN Outcome(e2 \o <<print_warn("Unable to retrieve channel!")>>, "False")
        ELSE IF Truthy(response.status_code)
        THEN Outcome(e3 \o <<print_error("Failed to add user to channel")>>, "False")
        ELSE Outcome(e3, "True")

remove_user_from_channel(email, channelname, teamname, user, channel, response) ==
    LET e1 == <<print_info("Removing user from team"),
                Call("users.get_user_by_email", "lookup", email, None)>>
        e2 == e1 \o <<Call("channels.get_channel_by_name_and_team_name", "lookup",
                           teamname, parse_channel_name(Chars(channelname)))>>
        e3 == e2 \o <<Call("channels.remove_channel_member", "mutate", channel, user)>>
    IN  IF ~Truthy(user)
        THEN Outcome(e1 \o <<print_warn("User not found!")>>, "False")
        ELSE IF ~Truthy(channel)
        THEN Outcome(e2 \o <<print_warn("Unable to retrieve channel!")>>, "False")
        ELSE IF Truthy(response.status_code)
        THEN Outcome(e3 \o <<print_error("Failed to remove user from channel")>>, "False")
        ELSE Outcome(e3, "True")

----------------------------------------------------------------------------
(* What the Driver may answer *)

\* a lookup finds nothing, or the entity (kept as its id)
UserResults == {None, "user-id"}
TeamResults == {None, "team-id"}
ChannelResults == {None, "channel-id"}

Response(status, status_code, team_id, nickname) ==
    [status |-> status, status_code |-> status_code, team_id |-> team_id,
     nickname |-> nickname]

\* a dict with none of the keys the action functions consult
NoResponse == Response(None, None, None, None)

\* the answers to a mutating call: the success bodies of the endpoints (a status,
\* a team member, a user, a channel member) and the error body, which carries a
\* status_code element and none of the others
Responses ==
    { Response("OK", None, None, None),
      Response("FAIL", None, None, None),
      Response("", None, None, None),
      Response(None, "403", None, None),
      Response(None, None, "team-id", None),
      Response(None, None, "", None),
      Response(None, None, None, NICK),
      Response(None, None, None, ""),
      Response(None, None, None, "Old"),
      NoResponse }

----------------------------------------------------------------------------
(* main *)

Calls(events) == SelectSeq(events, LAMBDA e : e.ev = "call")
Lines(events) == SelectSeq(events, LAMBDA e : e.ev = "print")

\* a Driver call as recorded in api: made within block act (0: by main itself)
ApiEntry(act, e) == [act |-> act, api |-> e.api, kind |-> e.kind, a1 |-> e.a1, a2 |-> e.a2]

\* a printed line as recorded in out: printed by function fn within block act
OutEntry(act, fn, e) == [act |-> act, fn |-> fn, level |-> e.level, msg |-> e.msg]

NoCall ==
    [act |-> 0, fn |-> None, user |-> None, entity |-> None, response |-> NoResponse,
     events |-> <<>>, ret |-> None]

Crash ==
    /\ pc' = "crashed"
    /\ exitCode' = 1

\* main, lines 559-562: the defaults of config.ini and the first parse
LoadInitialDefaults ==
    /\ pc = "start"
    /\ IF LoadRaises(DEFAULT_CONFIG_FILE)
       THEN Crash /\ UNCHANGED args
       ELSE LET initial_defaults == load_site_config(DEFAULT_CONFIG_FILE)
            IN  IF ParserError(initial_defaults, cmdline)
                THEN pc' = "usage_error" /\ exitCode' = 2 /\ UNCHANGED args
                ELSE /\ args' = parse_args(initial_defaults, cmdline)
                     /\ pc' = "parsed_initial"
                     /\ UNCHANGED exitCode
    /\ UNCHANGED <<cmdline, files, cur, userToken, driver, api, out, invoked, last>>

\* main, lines 568-574: the defaults of args.config and the second parse
ReloadConfig ==
    /\ pc = "parsed_initial"
    /\ IF ~Truthy(args.config)
       THEN pc' = "parsed" /\ UNCHANGED <<args, exitCode>>
       ELSE IF LoadRaises(args.config)
       THEN Crash /\ UNCHANGED args
       ELSE LET new_defaults == load_site_config(args.config)
            IN  IF ParserError(new_defaults, cmdline)
                THEN pc' = "usage_error" /\ exitCode' = 2 /\ UNCHANGED args
                ELSE /\ args' = parse_args(new_defaults, cmdline)
                     /\ pc' = "parsed"
                     /\ UNCHANGED exitCode
    /\ UNCHANGED <<cmdline, files, cur, userToken, driver, api, out, invoked, last>>

ValidateMessage(code) ==
    CASE code = 1 -> "Site URL, port, HTTP scheme and token file are all required parameter!"
      [] code = 2 -> "User email required!"
      [] code = 3 -> "A team name is required when performing channel operations!"

\* validate_args printing its error without the exit() after it
ValidateArgsNoExit ==
    /\ pc = "parsed"
    /\ LET code == validate_args(args)
       IN  /\ pc' = "validated"
           /\ out' = IF code = 0 THEN out
                     ELSE Append(out, OutEntry(0, "validate_args",
                                               print_error(ValidateMessage(code))))
    /\ UNCHANGED <<cmdline, files, args, exitCode, cur, userToken, driver, api, invoked, last>>

\* main, line 576
ValidateArgs ==
    /\ pc = "parsed"
    /\ LET code == validate_args(args)
       IN  IF code = 0
           THEN pc' = "validated" /\ UNCHANGED <<exitCode, out>>
           ELSE /\ pc' = "exited"
                /\ exitCode' = code
                /\ out' = Append(out, OutEntry(0, "validate_args",
                                               print_error(ValidateMessage(code))))
    /\ UNCHANGED <<cmdline, files, args, cur, userToken, driver, api, invoked, last>>

\* main, line 578
ReadToken ==
    /\ pc = "validated"
    /\ userToken' = FirstLine(args.tokenfile)
    /\ pc' = "token_read"
    /\ UNCHANGED <<cmdline, files, args, exitCode, cur, driver, api, out, invoked, last>>

\* main, lines 582-587; int(args.port) raises ValueError on a non-numeric port
ConstructDriver ==
    /\ pc = "token_read"
    /\ IF args.port \notin NumericPorts
       THEN Crash /\ UNCHANGED driver
       ELSE /\ driver' = [built |-> TRUE, url |-> args.siteurl, port |-> IntOf(args.port),
                          token |-> userToken, scheme |-> args.scheme]
            /\ pc' = "constructed"
            /\ UNCHANGED exitCode
    /\ UNCHANGED <<cmdline, files, args, cur, userToken, api, out, invoked, last>>

\* main without its mm.login() line
LoginOmitted ==
    /\ pc = "constructed"
    /\ pc' = "actions"
    /\ cur' = 1
    /\ UNCHANGED <<cmdline, files, args, exitCode, userToken, driver, api, out, invoked, last>>

\* main, line 589
Login ==
    /\ pc = "constructed"
    /\ api' = Append(api, ApiEntry(0, Call("login", "login", None, None)))
    /\ pc' = "actions"
    /\ cur' = 1
    /\ UNCHANGED <<cmdline, files, args, exitCode, userToken, driver, out, invoked, last>>

\* an `if args.<flag>:` whose flag is not set
SkipBlock ==
    /\ pc = "actions"
    /\ cur <= NFlags
    /\ ~Selected(args, Flags[cur])
    /\ cur' = cur + 1
    /\ UNCHANGED <<cmdline, files, args, pc, exitCode, userToken, driver, api, out,
                   invoked, last>>

\* `if args.<flag>: if not fn(...): print_warn(failmsg)` for block i, the function
\* having ended as o; entity and response are what it was answered where it asked
RunBlock(i, fn, o, user, entity, response, failmsg) ==
    /\ pc = "actions"
    /\ cur = i
    /\ Selected(args, Flags[i])
    /\ invoked' = [invoked EXCEPT ![i] = @ + 1]
    /\ api' = api \o [k \in 1..Len(Calls(o.events)) |-> ApiEntry(i, Calls(o.events)[k])]
    /\ out' = out \o [k \in 1..Len(Lines(o.events)) |-> OutEntry(i, fn, Lines(o.events)[k])]
                  \o (IF o.ret = "False"
                      THEN <<OutEntry(i, "main", print_warn(failmsg))>>
                      ELSE <<>>)
    /\ last' = [act |-> i, fn |-> fn, user |-> user,
                entity |-> IF Len(Calls(o.events)) >= 2 THEN entity ELSE None,
                response |-> IF \E k \in 1..Len(o.events) : o.events[k].kind = "mutate"
                             THEN response ELSE NoResponse,
                events |-> o.events, ret |-> o.ret]
    /\ IF o.ret = "KeyError"
       THEN Crash /\ UNCHANGED cur
       ELSE cur' = i + 1 /\ UNCHANGED <<pc, exitCode>>
    /\ UNCHANGED <<cmdline, files, args, userToken, driver>>

\* main, lines 591-593
ForceLogout ==
    \E user \in UserResults, response \in Responses :
        RunBlock(1, "force_user_logout",
                 force_user_logout(args.useremail, user, response),
                 user, None, response, "Failed to logout user")

\* main, lines 595-597
DisableUser ==
    \E user \in UserResults, response \in Responses :
        RunBlock(2, "disable_user",
                 disable_user(args.useremail, FALSE, user, response),
                 user, None, response, "Failed to disable user")

\* main, lines 599-601
EnableUser ==
    \E user \in UserResults, response \in Responses :
        RunBlock(3, "disable_user",
                 disable_user(args.useremail, TRUE, user, response),
                 user, None, response, "Failed to enable user")

\* main, lines 603-605
NewNickname ==
    \E user \in UserResults, response \in Responses :
        RunBlock(4, "new_nickname",
                 new_nickname(args.useremail, args.newnickname, user, response),
                 user, None, response, "Failed to rename user")

\* main, lines 607-609
RemoveNickname ==
    \E user \in UserResults, response \in Responses :
        RunBlock(5, "remove_nickname",
                 remove_nickname(args.useremail, user, response),
                 user, None, response, "Failed to remove nickname for user")

\* main, lines 611-613
TeamAdd ==
    \E user \in UserResults, team \in TeamResults, response \in Responses :
        RunBlock(6, "add_user_to_team",
                 add_user_to_team(args.useremail, args.teamadd, user, team, response),
                 user, team, response, "Failed to add user to team")

\* main, lines 615-617
TeamRemove ==
    \E user \in UserResults, team \in TeamResults, response \in Responses :
        RunBlock(7, "remove_user_from_team",
                 remove_user_from_team(args.useremail, args.teamremove, user, team, response),
                 user, team, response, "Failed to remove user from team")

\* main, lines 619-621
ChannelAdd ==
    \E user \in UserResults, channel \in ChannelResults, response \in Responses :
        RunBlock(8, "add_user_to_channel",
                 add_user_to_channel(args.useremail, args.channeladd, args.team,
                                     user, channel, response),
                 user, channel, response, "Failed to add user to channel")

\* main, lines 623-625
ChannelRemove ==
    \E user \in UserResults, channel \in ChannelResults, response \in Responses :
        RunBlock(9, "remove_user_from_channel",
                 remove_user_from_channel(args.useremail, args.channelremove, args.team,
                                          user, channel, response),
                 user, channel, response, "Failed to remove user from channel")

\* main, line 627
Return ==
    /\ pc = "actions"
    /\ cur = NFlags + 1
    /\ pc' = "done"
    /\ exitCode' = 0
    /\ UNCHANGED <<cmdline, files, args, cur, userToken, driver, api, out, invoked, last>>

----------------------------------------------------------------------------
(* Command lines and config files *)

FlagSet == {Flags[i] : i \in 1..NFlags}

\* the action flags of a command line, each at most once, in any order
Argvs(n) ==
    UNION { {a \in [1..k -> FlagSet] : \A i, j \in 1..k : a[i] = a[j] => i = j} : k \in 0..n }

ConfigFile(siteurl, port, scheme, tokenfile) ==
    [hasSite |-> TRUE, siteurl |-> siteurl, port |-> port, scheme |-> scheme,
     tokenfile |-> tokenfile]

\* a file that does not exist or has no [Site] section
NoSiteFile ==
    [hasSite |-> FALSE, siteurl |-> None, port |-> None, scheme |-> None,
     tokenfile |-> None]

\* a command line whose channel flags, when given, carry the names Town Hall and Off-Topic
CommandLine(config, siteurl, port, scheme, tokenfile, useremail, team, argv) ==
    [config |-> config, siteurl |-> siteurl, port |-> port, scheme |-> scheme,
     tokenfile |-> tokenfile, useremail |-> useremail, team |-> team, argv |-> argv,
     channeladd |-> TownHall, channelremove |-> OffTopic]

\* a command line with -e, --team and the channel flags of argv, which carry channelname
ChannelCommandLine(argv, channelname) ==
    [config |-> None, siteurl |-> None, port |-> None, scheme |-> None,
     tokenfile |-> None, useremail |-> USER_EMAIL, team |-> TEAM, argv |-> argv,
     channeladd |-> channelname, channelremove |-> channelname]

Start ==
    /\ args = NoArgs
    /\ pc = "start"
    /\ exitCode = -1
    /\ cur = 0
    /\ userToken = None
    /\ driver = [built |-> FALSE, url |-> None, port |-> 0, token |-> None, scheme |-> None]
    /\ api = <<>>
    /\ out = <<>>
    /\ invoked = [i \in 1..NFlags |-> 0]
    /\ last = NoCall

\* runs with action flags: config.ini gives the site, complete or with one of the
\* four settings missing or empty
Init ==
    /\ cmdline \in { CommandLine(None, None, None, None, None, useremail, team, argv) :
                        useremail \in {None, "", USER_EMAIL},
                        team \in {None, TEAM},
                        argv \in Argvs(MaxFlags) }
    /\ files \in { [f \in {DEFAULT_CONFIG_FILE, OTHER_CONFIG_FILE} |->
                       IF f = DEFAULT_CONFIG_FILE THEN c ELSE NoSiteFile] :
                     c \in { ConfigFile("ini.example.com", None, None, "ini.tok"),
                             ConfigFile(None, "8065", "http", "ini.tok"),
                             ConfigFile("ini.example.com", "", "http", "ini.tok"),
                             ConfigFile("ini.example.com", "8065", "", "ini.tok"),
                             ConfigFile("ini.example.com", "8065", "http", None) } }
    /\ Start

Next ==
    \/ LoadInitialDefaults
    \/ ReloadConfig
    \/ ValidateArgs
    \/ ReadToken
    \/ ConstructDriver
    \/ Login
    \/ SkipBlock
    \/ ForceLogout
    \/ DisableUser
    \/ EnableUser
    \/ NewNickname
    \/ RemoveNickname
    \/ TeamAdd
    \/ TeamRemove
    \/ ChannelAdd
    \/ ChannelRemove
    \/ Return

Spec == Init /\ [][Next]_vars

\* what a config file may hold: no [Site] section, or any subset of the four keys
ConfigFiles(siteurls, ports, schemes, tokenfiles) ==
    {NoSiteFile} \cup
    { ConfigFile(siteurl, port, scheme, tokenfile) :
        siteurl \in siteurls, port \in ports, scheme \in schemes, tokenfile \in tokenfiles }

\* runs without action flags, over the site options of the command line, of
\* config.ini and of the file --config names
InitConfig ==
    /\ cmdline \in { CommandLine(config, siteurl, port, scheme, tokenfile, USER_EMAIL, None, <<>>) :
                        config \in {None, OTHER_CONFIG_FILE},
                        siteurl \in {None, "cli.example.com"},
                        port \in {None, "8067", "eighty"},
                        scheme \in {None, "http", "ftp"},
                        tokenfile \in {None, "cli.tok", "missing.tok"} }
    /\ files \in { [f \in {DEFAULT_CONFIG_FILE, OTHER_CONFIG_FILE} |->
                       IF f = DEFAULT_CONFIG_FILE THEN ini ELSE other] :
                     ini \in ConfigFiles({None, "ini.example.com"}, {None, "8065", ""},
                                         {None, "http"}, {None, "ini.tok", "gone.tok"}),
                     other \in IF cmdline.config = None
                               THEN {NoSiteFile}
                               ELSE ConfigFiles({None, "other.example.com"}, {None, "8066"},
                                                {None, "https"}, {None, "other.tok"}) }
    /\ Start

NextConfig ==
    \/ LoadInitialDefaults
    \/ ReloadConfig
    \/ ValidateArgs
    \/ ReadToken
    \/ ConstructDriver
    \/ Login
    \/ SkipBlock
    \/ Return

SpecConfig == InitConfig /\ [][NextConfig]_vars

\* the characters a channel name is made of here: ASCII letters of either case,
\* the space, the dash, and the two letters outside ASCII that Lower describes
AsciiChars == {"A", "b", " ", "-"}
NameChars == AsciiChars \cup {"U+0130", "U+2102"}

\* the non-empty channel names of at most n characters
ChannelNames(n) == UNION { [1..k -> NameChars] : k \in 1..n }

\* runs that add the user to, or remove the user from, a channel of any name
InitChannel ==
    /\ cmdline \in { ChannelCommandLine(argv, channelname) :
                        argv \in {<<"channeladd">>, <<"channelremove">>},
                        channelname \in ChannelNames(MaxNameLen) }
    /\ files = [f \in {DEFAULT_CONFIG_FILE, OTHER_CONFIG_FILE} |->
                   IF f = DEFAULT_CONFIG_FILE
                   THEN ConfigFile("ini.example.com", None, None, "ini.tok")
                   ELSE NoSiteFile]
    /\ Start

NextChannel ==
    \/ LoadInitialDefaults
    \/ ReloadConfig
    \/ ValidateArgs
    \/ ReadToken
    \/ ConstructDriver
    \/ Login
    \/ SkipBlock
    \/ ChannelAdd
    \/ ChannelRemove
    \/ Return

SpecChannel == InitChannel /\ [][NextChannel]_vars

----------------------------------------------------------------------------
(* Properties *)

\* main has gone past validate_args without exiting
PassedValidation ==
    \/ pc \in {"validated", "token_read", "constructed", "actions", "done"}
    \/ pc = "crashed" /\ userToken # None

\* validate_args has printed its error and exited
RejectedByValidation == \E k \in 1..Len(out) : out[k].fn = "validate_args"

AnyActionFlag(a) == \E f \in FlagSet : Selected(a, f)

SiteIncomplete(a) == \E k \in SiteKeys : a[k] = None \/ a[k] = ""

\* the first violated rule, 0 when none is
FirstViolatedRule(a) ==
    IF SiteIncomplete(a) THEN 1
    ELSE IF AnyActionFlag(a) /\ a.useremail \in {None, ""} THEN 2
    ELSE IF (Selected(a, "channeladd") \/ Selected(a, "channelremove")) /\ a.team \in {None, ""}
    THEN 3
    ELSE 0

\* C1: validate_args exits with the code of the first violated rule (1: a site
\* setting is missing, 2: an action flag without a user email, 3: a channel flag
\* without a team) and returns without exiting exactly when no rule is violated.
C1_ValidateByFirstViolatedRule ==
    /\ RejectedByValidation =>
          /\ pc = "exited"
          /\ exitCode = FirstViolatedRule(args)
          /\ exitCode \in {1, 2, 3}
    /\ PassedValidation => FirstViolatedRule(args) = 0

\* rule 1 wins although rules 2 and 3 are violated as well
C1_Witness ==
    /\ pc = "exited"
    /\ exitCode = 1
    /\ Selected(args, "channeladd")
    /\ args.useremail = ""
    /\ args.team = None

\* main has got to line 591 or beyond
InActions == pc \in {"actions", "done"} \/ (pc = "crashed" /\ driver.built)

\* main has ended, by returning, by exit() or by an uncaught exception
Ended == pc \in {"done", "exited", "usage_error", "crashed"}

SelectedBlocks == {i \in 1..NFlags : Selected(args, Flags[i])}

\* the Driver calls of kind k made within block i
CallsOf(i, k) == {n \in 1..Len(api) : api[n].act = i /\ api[n].kind = k}

\* the most recent action function made its mutating call
Mutated == \E n \in 1..Len(last.events) : last.events[n].kind = "mutate"

MutateCount(events) == Cardinality({n \in 1..Len(events) : events[n].kind = "mutate"})

\* the action functions that look a team or a channel up after the user
HasEntityLookup(fn) ==
    fn \in {"add_user_to_team", "remove_user_from_team",
            "add_user_to_channel", "remove_user_from_channel"}

\* the last thing the most recent action function did was print a line of level lv
EndsWithLine(levels) ==
    /\ last.events # <<>>
    /\ last.events[Len(last.events)].ev = "print"
    /\ last.events[Len(last.events)].level \in levels

\* C2: each selected action is invoked exactly once and each unselected action
\* never, whatever the earlier actions' outcomes were: when main has ended after
\* reaching its action blocks, the invocation counts equal the selection.
C2_EverySelectedActionRunsOnce ==
    (Ended /\ InActions) =>
        \A i \in 1..NFlags : invoked[i] = IF i \in SelectedBlocks THEN 1 ELSE 0

\* what each function's source takes for a successful answer to its mutating call:
\* status 'OK' (lines 247, 286), the nickname asked for (319, 351), a team_id value
\* (400-401), a status value (450-451), no status_code element (510-511)
IndicatesSuccess(fn, r) ==
    CASE fn = "force_user_logout" -> r.status = "OK"
      [] fn = "disable_user" -> r.status = "OK"
      [] fn = "new_nickname" -> r.nickname = NICK
      [] fn = "remove_nickname" -> r.nickname = ""
      [] fn = "add_user_to_team" -> Truthy(r.team_id)
      [] fn = "remove_user_from_team" -> Truthy(r.status)
      [] fn = "add_user_to_channel" -> ~Truthy(r.status_code)
      [] fn = "remove_user_from_channel" -> ~Truthy(r.status_code)

\* C3: whenever the answer to an action function's mutating call does not indicate
\* success, the function prints a warning or error and returns False; it returns
\* True only on an answer that indicates success.
C3_NonSuccessReturnsFalse ==
    (last.act # 0 /\ Mutated) =>
        /\ ~IndicatesSuccess(last.fn, last.response) =>
              (last.ret = "False" /\ EndsWithLine({"WARNING", "ERROR"}))
        /\ last.ret = "True" => IndicatesSuccess(last.fn, last.response)

\* C4: an action function whose user lookup finds nothing prints a warning, returns
\* False and has made that one call only; one whose user is found and whose team or
\* channel lookup finds nothing prints a warning, returns False and has made the two
\* lookups and no mutating call.
C4_MissingEntityStopsTheAction ==
    last.act # 0 =>
        /\ last.user = None =>
              /\ last.ret = "False"
              /\ EndsWithLine({"WARNING"})
              /\ Len(Calls(last.events)) = 1
              /\ Calls(last.events)[1].api = "users.get_user_by_email"
        /\ (last.user # None /\ HasEntityLookup(last.fn) /\ last.entity = None) =>
              /\ last.ret = "False"
              /\ EndsWithLine({"WARNING"})
              /\ Len(Calls(last.events)) = 2
              /\ \A n \in 1..2 : Calls(last.events)[n].kind = "lookup"

\* the user is found, the channel is not: two lookups, no mutating call
C4_Witness ==
    /\ last.fn = "add_user_to_channel"
    /\ last.user # None
    /\ last.entity = None
    /\ Len(Calls(last.events)) = 2
    /\ last.ret = "False"

\* every lookup of the most recent action function found its entity
LookupsSucceeded ==
    /\ last.user # None
    /\ HasEntityLookup(last.fn) => last.entity # None

\* C5: an invocation of an action function makes at most one mutating call, and
\* exactly one when all its lookups succeed, whatever the answer; so no block makes
\* more than one mutating call and the run makes no more than there are selected flags.
C5_OneMutatingCallPerAction ==
    /\ last.act # 0 =>
          /\ MutateCount(last.events) <= 1
          /\ LookupsSucceeded <=> MutateCount(last.events) = 1
    /\ \A i \in 1..NFlags : Cardinality(CallsOf(i, "mutate")) <= invoked[i]
    /\ \A i \in 1..NFlags : invoked[i] <= 1
    /\ Cardinality({n \in 1..Len(api) : api[n].kind = "mutate"}) <= Cardinality(SelectedBlocks)

\* a mutating call answered with a failure, made once and not again
C5_Witness ==
    /\ last.act # 0
    /\ last.ret = "False"
    /\ last.response.status = "FAIL"
    /\ MutateCount(last.events) = 1
    /\ Cardinality(CallsOf(last.act, "mutate")) = 1
    /\ pc = "done"

\* C6: an action function that returns True ends by printing an INFO line and one
\* that returns False by printing a WARNING or ERROR line.
C6_StatusLineMatchesResult ==
    last.act # 0 =>
        /\ last.ret = "True" => EndsWithLine({"INFO"})
        /\ last.ret = "False" => EndsWithLine({"WARNING", "ERROR"})

\* the file whose [Site] section gives the defaults: the one --config names, else config.ini
NamedConfig == IF cmdline.config = None THEN DEFAULT_CONFIG_FILE ELSE cmdline.config

BuiltInDefault(key) ==
    CASE key = "port" -> "443"
      [] key = "scheme" -> "https"
      [] OTHER -> None

\* command line first, then the named file's [Site] key, then the built-in default
SiteSetting(key) ==
    IF cmdline[key] # None THEN cmdline[key]
    ELSE IF files[NamedConfig][key] # None THEN files[NamedConfig][key]
    ELSE BuiltInDefault(key)

ArgsFinal == pc \in {"parsed", "exited", "validated", "token_read", "constructed", "actions", "done"}

\* C7: each site setting main works with after parsing, and builds the Driver from,
\* is the command-line value when the flag is given, else the value of that key in
\* the [Site] section of the file --config names (config.ini when it names none),
\* else the built-in default; nothing of config.ini is used when --config names
\* another file.
C7_SiteSettingPrecedence ==
    /\ ArgsFinal => \A key \in SiteKeys : args[key] = SiteSetting(key)
    /\ driver.built =>
          /\ driver.url = SiteSetting("siteurl")
          /\ driver.port = IntOf(SiteSetting("port"))
          /\ driver.scheme = SiteSetting("scheme")
          /\ driver.token = FirstLine(SiteSetting("tokenfile"))

\* --config names a file without a port, config.ini has one, and the Driver is
\* built with the default port
C7_Witness ==
    /\ driver.built
    /\ cmdline.config = OTHER_CONFIG_FILE
    /\ cmdline.port = None
    /\ files[DEFAULT_CONFIG_FILE].port = "8065"
    /\ files[OTHER_CONFIG_FILE].port = None
    /\ driver.port = 443
    /\ driver.url = "other.example.com"

LoginCalls == {n \in 1..Len(api) : api[n].api = "login"}

\* the Driver calls the action function of each block makes
ApisOf(i) ==
    CASE i = 1 -> {"users.get_user_by_email", "users.revoke_all_user_sessions"}
      [] i \in {2, 3} -> {"users.get_user_by_email", "users.update_user_active_status"}
      [] i \in {4, 5} -> {"users.get_user_by_email", "users.patch_user"}
      [] i = 6 -> {"users.get_user_by_email", "teams.get_team_by_name", "teams.add_user_to_team"}
      [] i = 7 -> {"users.get_user_by_email", "teams.get_team_by_name",
                   "teams.remove_user_from_team"}
      [] i = 8 -> {"users.get_user_by_email", "channels.get_channel_by_name_and_team_name",
                   "channels.add_user"}
      [] i = 9 -> {"users.get_user_by_email", "channels.get_channel_by_name_and_team_name",
                   "channels.remove_channel_member"}

\* the calls after login belong to selected blocks, each to its block's function,
\* block after block in the order of Flags
ActionsInFixedOrder ==
    \A n \in 2..Len(api) :
        /\ api[n].act \in SelectedBlocks
        /\ api[n].api \in ApisOf(api[n].act)
        /\ api[n - 1].act <= api[n].act

\* C8 as stated: every run of main logs in exactly once, before any action, and
\* runs the selected actions in the fixed order without interleaving; here for the
\* runs that end by main returning or by validate_args exiting.
C8_LoginOnceInEveryRun ==
    pc \in {"done", "exited"} =>
        /\ Cardinality(LoginCalls) = 1
        /\ api[1].api = "login"
        /\ ActionsInFixedOrder

\* C8 amended: no run logs in more than once; a run that gets to the action blocks
\* has logged in exactly once, as its first Driver call, and a run that ends before
\* them has made no Driver call; the actions that run do so in the fixed order of
\* Flags whatever the order on the command line, one block's calls never among
\* another's.
C8_LoginOnceBeforeActionsInOrder ==
    /\ Cardinality(LoginCalls) <= 1
    /\ InActions => (Cardinality(LoginCalls) = 1 /\ api[1].api = "login")
    /\ ~InActions => api = <<>>
    /\ ActionsInFixedOrder

\* the flags were given last-first and the blocks ran first-last
C8_Witness ==
    /\ pc = "done"
    /\ cmdline.argv = <<"channelremove", "forcelogout">>
    /\ \E m, n \in 1..Len(api) : m < n /\ api[m].act = 1 /\ api[n].act = 9

\* C9: when validate_args rejects the arguments the process has exited with code
\* 1, 2 or 3 without reading the token file, building the Driver or making any
\* Driver call (login, lookup or mutating call).
C9_RejectedRunCallsNothing ==
    RejectedByValidation =>
        /\ pc = "exited"
        /\ exitCode \in {1, 2, 3}
        /\ userToken = None
        /\ ~driver.built
        /\ api = <<>>

\* rejected for a channel flag without team, with an action selected
C9_Witness ==
    /\ RejectedByValidation
    /\ exitCode = 3
    /\ SelectedBlocks # {}

\* the active values sent, in order
ActiveSent ==
    LET updates == SelectSeq(api, LAMBDA c : c.api = "users.update_user_active_status")
    IN  [n \in 1..Len(updates) |-> updates[n].a2]

UserAlwaysFound == ~\E n \in 1..Len(out) : out[n].msg = "User not found!"

\* C10: the update sent by the disable block carries active=False and the one sent
\* by the enable block active=True; and a run with both --disableuser and
\* --enableuser whose user lookups succeed has, when it ends, sent active=False
\* first and active=True last.
C10_EnableIsSentLast ==
    /\ \A n \in 1..Len(api) :
          api[n].api = "users.update_user_active_status" =>
              api[n].a2 = (IF api[n].act = 3 THEN "True" ELSE "False")
    /\ (Ended /\ InActions /\ args.disableuser /\ args.enableuser /\ UserAlwaysFound) =>
          ActiveSent = <<"False", "True">>

\* the channel lookups made, each with the name its flag carried on the command line
ChannelLookups == {n \in 1..Len(api) : api[n].api = "channels.get_channel_by_name_and_team_name"}

NameGiven(n) == IF api[n].act = 8 THEN cmdline.channeladd ELSE cmdline.channelremove

\* character by character: a space becomes a dash, any other character its lower-case form
RECURSIVE LowerAndDash(_)
LowerAndDash(s) ==
    IF s = <<>> THEN <<>>
    ELSE (IF Head(s) = " " THEN <<"-">> ELSE Lower(Head(s))) \o LowerAndDash(Tail(s))

NoSpace(s) == \A i \in 1..Len(s) : s[i] # " "
NoUpper(s) == \A i \in 1..Len(s) : ~IsUpper(s[i])
IsAscii(s) == \A i \in 1..Len(s) : s[i] \in AsciiChars

\* C11 as stated: each channel lookup is made with the team name unchanged and the
\* channel name lower-cased with spaces turned to dashes, which has the length of
\* the name given, holds no space and no upper-case letter, and is a fixed point
\* of parse_channel_name.
C11_ConvertedNameSameLengthNoUpper ==
    \A n \in ChannelLookups :
        /\ api[n].a1 = cmdline.team
        /\ api[n].a2 = LowerAndDash(NameGiven(n))
        /\ Len(api[n].a2) = Len(NameGiven(n))
        /\ NoSpace(api[n].a2)
        /\ NoUpper(api[n].a2)
        /\ parse_channel_name(api[n].a2) = api[n].a2

\* C11 amended: each channel lookup is made with the team name unchanged and the
\* channel name lower-cased with spaces turned to dashes, which holds no space and
\* is a fixed point of parse_channel_name; for a name of ASCII characters it has
\* the length of the name given and holds no upper-case letter.
C11_ConvertedNameLowerDashedIdempotent ==
    \A n \in ChannelLookups :
        /\ api[n].a1 = cmdline.team
        /\ api[n].a2 = LowerAndDash(NameGiven(n))
        /\ NoSpace(api[n].a2)
        /\ parse_channel_name(api[n].a2) = api[n].a2
        /\ IsAscii(NameGiven(n)) =>
              /\ Len(api[n].a2) = Len(NameGiven(n))
              /\ NoUpper(api[n].a2)

\* "A b" was given and the channel "a-b" was looked up in the team given
C11_Witness ==
    \E n \in ChannelLookups :
        /\ NameGiven(n) = <<"A", " ", "b">>
        /\ api[n].a2 = <<"a", "-", "b">>
        /\ api[n].a1 = TEAM

====
